---- MODULE Spec2Model ----
(***************************************************************************)
(* Model of the space-weather alert bot (space_alerrt_bot.py) and of the   *)
(* read-only dashboard (app.py).                                           *)
(*                                                                         *)
(* Encoding of Python values:                                              *)
(*   None is <<>>, a present value v is <<v>>;                              *)
(*   a dict is a function whose DOMAIN is its set of keys;                 *)
(*   a str is the sequence of its characters;                              *)
(*   Kp indices are integers in tenths (60 is Kp 6.0).                     *)
(* A file is [state |-> "missing" | "partial" | "ok", data |-> dict]:      *)
(* "partial" is a file that open(.., "w") truncated and whose JSON text    *)
(* was not (yet) written completely, so json.load fails on it.             *)
(***************************************************************************)
EXTENDS Integers, Sequences, FiniteSets, TLC

VARIABLES
    pc,          \* position of the bot inside check_and_alert
    now,         \* clock: number of cycles started so far
    alive,       \* the bot process is running
    cyc,         \* locals and outcome of the current / last cycle
    prev,        \* summary of the cycle before it
    statusFile,  \* status.json
    cacheFile,   \* last_alert_cache.json
    lastSent,    \* last notification the gateway accepted
    lastRecord,  \* last record written completely to status.json
    resp         \* response of the dashboard request served by the latest step

vars == <<pc, now, alive, cyc, prev, statusFile, cacheFile, lastSent,
          lastRecord, resp>>

(***************************************************************************)
(* Bounds                                                                  *)
(***************************************************************************)
MaxCycles == 2
\* longest list of CME analyses given to fetch_latest_cme on its own
MaxAnalyses == 2

(***************************************************************************)
(* Python values                                                           *)
(***************************************************************************)
None == <<>>
Some(v) == <<v>>
EmptyDict == [k \in {} |-> None]

\* dict.get(k): the value, or None when the key is absent
Get(d, k) == IF k \in DOMAIN d THEN d[k] ELSE None

\* truth value of an optional number: None and 0 are falsy
TruthyNum(v) == v # None /\ v[1] # 0

\* truth value of an optional bool
TruthyBool(v) == v # None /\ v[1]

\* truth value of an optional str (a sequence of characters inside Some)
TruthyStr(v) == v # None /\ v[1] # <<>>

\* a or b, on optional strs / optional numbers
OrStr(a, b) == IF TruthyStr(a) THEN a ELSE b

Missing == [state |-> "missing", data |-> EmptyDict]
Partial == [state |-> "partial", data |-> EmptyDict]
FileOf(d) == [state |-> "ok", data |-> d]

\* no dashboard request was served by the latest step
NoResp == [handler |-> "none", code |-> 0, kind |-> "none", body |-> EmptyDict]

\* result of a call: it raised, or it returned val
Raised == [raised |-> TRUE, val |-> None]
Ret(v) == [raised |-> FALSE, val |-> v]

(***************************************************************************)
(* Provider responses. kind is                                             *)
(*   "error"     the request failed: transport error, timeout, HTTP error  *)
(*               status (requests raises a RequestException);              *)
(*   "malformed" the body is JSON of the wrong shape (an object in place   *)
(*               of the list): indexing or .get on it raises an exception  *)
(*               that is not a RequestException;                           *)
(*   "ok"        the body is the list arr of dicts.                        *)
(***************************************************************************)
Resp(kind, arr) == [kind |-> kind, arr |-> arr]

\* str values
Tag == Some(<<"t", "a", "g">>)
isoformat(n) == Some(<<"utc", ToString(n)>>)
strftime(n) == Some(<<"UTC", ToString(n)>>)

\* for key in ("kp_index", "kp", "Kp"): first key present wins
KpOf(latest) ==
    IF "kp_index" \in DOMAIN latest THEN latest["kp_index"]
    ELSE IF "kp" \in DOMAIN latest THEN latest["kp"]
    ELSE IF "Kp" \in DOMAIN latest THEN latest["Kp"]
    ELSE None

\* float(kp) if kp is not None else None: the number itself (in tenths)
FloatOrNone(kp) == IF kp # None THEN Some(kp[1]) ELSE None

fetch_latest_kp(r) ==
    IF r.kind # "ok" THEN Raised
    ELSE IF r.arr = <<>> THEN Ret(None)
    ELSE LET latest == r.arr[1]
             kp == KpOf(latest)
             t == OrStr(OrStr(OrStr(Get(latest, "time_tag"),
                                    Get(latest, "date_time")),
                              Get(latest, "timestamp")),
                        Get(latest, "date"))
         IN  Ret(Some([kp |-> FloatOrNone(kp), time |-> t]))

\* latest_flare.get("classType", "B0.0")
DefaultClassType == Some(<<"B", "0", ".", "0">>)
ClassTypeOf(latest) ==
    IF "classType" \in DOMAIN latest THEN latest["classType"]
    ELSE DefaultClassType

fetch_latest_nasa_flare(r) ==
    IF r.kind = "error" THEN Ret(None)
    ELSE IF r.kind = "malformed" THEN Raised
    ELSE IF r.arr = <<>> THEN Ret(None)
    ELSE LET latest == r.arr[1]
             ct == ClassTypeOf(latest)
         IN  IF ct = None \/ ct[1] = <<>> THEN Raised   \* None[0], ""[0]
             ELSE Ret(Some([class |-> Head(ct[1]),
                            time |-> Get(latest, "beginTime")]))

\* variant: the isMostAccurate test is left out
CmeMatch_AnyAnalysis(analysis) ==
    /\ TruthyNum(Get(analysis, "speed"))
    /\ Get(analysis, "speed")[1] > 600
\* if is_most_accurate and speed and speed > 600
CmeMatch(analysis) ==
    /\ TruthyBool(Get(analysis, "isMostAccurate"))
    /\ TruthyNum(Get(analysis, "speed"))
    /\ Get(analysis, "speed")[1] > 600

RECURSIVE CmeScan(_, _)
CmeScan(analyses, i) ==
    IF i > Len(analyses) THEN None
    ELSE IF CmeMatch(analyses[i])
         THEN Some([speed |-> analyses[i]["speed"][1]])
         ELSE CmeScan(analyses, i + 1)

fetch_latest_cme(r) ==
    IF r.kind = "error" THEN Ret(None)
    ELSE IF r.kind = "malformed" THEN Raised
    ELSE IF r.arr = <<>> THEN Ret(None)
    ELSE Ret(CmeScan(r.arr, 1))

(***************************************************************************)
(* Risk scoring                                                            *)
(***************************************************************************)
\* variant: "kp > 6.0" and "kp > 3.0" in place of ">="
kp_risk_Strict(kp_value) ==
    IF kp_value # None /\ kp_value[1] > 60 THEN "red"
    ELSE IF kp_value # None /\ kp_value[1] > 30 THEN "yellow"
    ELSE "green"
kp_risk(kp_value) ==
    IF kp_value # None /\ kp_value[1] >= 60 THEN "red"
    ELSE IF kp_value # None /\ kp_value[1] >= 30 THEN "yellow"
    ELSE "green"

flare_risk(flare_class) ==
    IF flare_class = Some("X") THEN "red"
    ELSE IF flare_class = Some("M") THEN "yellow"
    ELSE "green"

cme_risk(cme_speed) ==
    IF cme_speed # None /\ cme_speed[1] > 1000 THEN "red"
    ELSE IF cme_speed # None /\ cme_speed[1] > 600 THEN "yellow"
    ELSE "green"

\* variant: float(kp_value) without the "is not None" test raises a
\* TypeError on a missing Kp
score_risk_Unguarded(kp_value, flare_class, cme_speed) ==
    IF kp_value = None THEN "TypeError"
    ELSE IF kp_risk(kp_value) = "red" \/ flare_risk(flare_class) = "red"
            \/ cme_risk(cme_speed) = "red" THEN "red"
    ELSE IF kp_risk(kp_value) = "yellow" \/ flare_risk(flare_class) = "yellow"
            \/ cme_risk(cme_speed) = "yellow" THEN "yellow"
    ELSE "green"
score_risk(kp_value, flare_class, cme_speed) ==
    LET k == kp_risk(kp_value)
        f == flare_risk(flare_class)
        c == cme_risk(cme_speed)
    IN  IF k = "red" \/ f = "red" \/ c = "red" THEN "red"
        ELSE IF k = "yellow" \/ f = "yellow" \/ c = "yellow" THEN "yellow"
        ELSE "green"

(***************************************************************************)
(* Inputs of a cycle: what the three providers answer                      *)
(***************************************************************************)
KpResponses ==
    { Resp("error", <<>>), Resp("malformed", <<>>), Resp("ok", <<>>),
      Resp("ok", << [kp_index |-> Some(0), time_tag |-> Tag] >>),
      Resp("ok", << [kp |-> Some(20)] >>),
      Resp("ok", << [kp |-> Some(30), Kp |-> Some(60), date |-> Tag],
                    [kp_index |-> Some(60)] >>),
      Resp("ok", << [Kp |-> Some(60), time_tag |-> Some(<<>>)] >>),
      Resp("ok", << [time_tag |-> Tag] >>) }

FlareResponses ==
    { Resp("error", <<>>), Resp("malformed", <<>>), Resp("ok", <<>>),
      Resp("ok", << [classType |-> Some(<<"M", "5", ".", "0">>),
                     beginTime |-> Tag],
                    [classType |-> Some(<<"X", "1">>)] >>),
      Resp("ok", << [classType |-> None] >>) }

CmeResponses ==
    { Resp("error", <<>>), Resp("malformed", <<>>), Resp("ok", <<>>),
      Resp("ok", << [speed |-> Some(900)],
                    [isMostAccurate |-> Some(TRUE), speed |-> Some(700)] >>),
      Resp("ok", << [isMostAccurate |-> Some(FALSE), speed |-> Some(1200)],
                    [isMostAccurate |-> Some(TRUE), speed |-> Some(500)] >>) }

(***************************************************************************)
(* Message formatting and dispatch                                         *)
(***************************************************************************)
Line(lang, phrase) == [lang |-> lang, phrase |-> phrase]

\* f"{p['when']}: {time_str} (Kp={kp_val})" and the two optional clauses
WhenLine(lang, kp_val, time_str, flare_class, cme_speed) ==
    [lang |-> lang, phrase |-> "when", time |-> time_str, kp |-> kp_val,
     flare |-> IF flare_class \in {Some("X"), Some("M")}
               THEN flare_class ELSE None,
     cme |-> IF TruthyNum(cme_speed) THEN cme_speed ELSE None]

\* variant: the flare-risk note of a yellow message is appended whenever
\* there is a flare class at all
format_message_AnyFlare(risk, kp_val, time_str, flare_class, cme_speed, lang) ==
    LET title == IF risk = "red" THEN "title_red"
                 ELSE IF risk = "yellow" THEN "title_yellow"
                 ELSE "title_green"
        head == << Line(lang, title),
                   WhenLine(lang, kp_val, time_str, flare_class, cme_speed) >>
    IN  IF risk = "red"
        THEN head \o << Line(lang, "gps_advice"), Line(lang, "power_advice"),
                        Line(lang, "flare_risk") >>
        ELSE IF risk = "yellow"
        THEN head \o << Line(lang, "gps_advice") >>
                  \o (IF flare_class # None \/ TruthyNum(cme_speed)
                      THEN << Line(lang, "flare_risk") >> ELSE << >>)
        ELSE head \o << Line("en", "no_action") >>
format_message(risk, kp_val, time_str, flare_class, cme_speed, lang) ==
    LET title == IF risk = "red" THEN "title_red"
                 ELSE IF risk = "yellow" THEN "title_yellow"
                 ELSE "title_green"
        head == << Line(lang, title),
                   WhenLine(lang, kp_val, time_str, flare_class, cme_speed) >>
    IN  IF risk = "red"
        THEN head \o << Line(lang, "gps_advice"), Line(lang, "power_advice"),
                        Line(lang, "flare_risk") >>
        ELSE IF risk = "yellow"
        THEN head \o << Line(lang, "gps_advice") >>
                  \o (IF flare_class = Some("M") \/ TruthyNum(cme_speed)
                      THEN << Line(lang, "flare_risk") >> ELSE << >>)
        ELSE head \o << Line("en", "no_action") >>

\* f"{msg_en}\n\n---\n{msg_ml}"
full_msg(risk, kp, t, flare_class, cme_speed) ==
    format_message(risk, kp, t, flare_class, cme_speed, "en")
        \o << Line("en", "divider") >>
        \o format_message(risk, kp, t, flare_class, cme_speed, "ml")

\* msg.sid of the message the gateway accepted in cycle n
Sid(n) == Some(<<"SM", ToString(n)>>)

(***************************************************************************)
(* Persisted state                                                         *)
(***************************************************************************)
\* variant: a default "normal" record in place of the empty dict
load_cache_Default(file) ==
    IF file.state = "ok" THEN file.data
    ELSE [last_kp |-> Some(10), last_risk |-> Some("green")]
load_cache(file) == IF file.state = "ok" THEN file.data ELSE EmptyDict

\* outcome of json.dump(d, open(path, "w")):
\*   "ok"        the file holds d;
\*   "open_fail" open raised, the file is untouched;
\*   "dump_fail" open truncated the file and the write raised.
WriteOutcomes == {"ok", "open_fail", "dump_fail"}

save_cache(d, file, outcome) ==
    IF outcome = "ok" THEN FileOf(d)
    ELSE IF outcome = "open_fail" THEN file
    ELSE Partial

\* last = cache.get("last_kp")
\* if not last or risk != cache.get("last_risk"): should_send = True
\* variant: "last and risk != ..." in place of "not last or risk != ..."
ShouldSend_And(cache, risk) ==
    /\ TruthyNum(Get(cache, "last_kp"))
    /\ Some(risk) # Get(cache, "last_risk")
ShouldSend(cache, risk) ==
    \/ ~TruthyNum(Get(cache, "last_kp"))
    \/ Some(risk) # Get(cache, "last_risk")

current_status(risk, kp, flare_class, cme_speed, clean_time) ==
    [risk |-> Some(risk), kp_value |-> kp, flare_class |-> flare_class,
     cme_speed |-> cme_speed, time |-> clean_time]

CacheKeys == {"last_kp", "last_time", "last_risk", "last_sent_sid",
              "last_sent_at"}

\* the five assignments cache[...] = ... after a successful send
UpdatedCache(cache, kp, t, risk, sid, sent_at) ==
    [k \in DOMAIN cache \cup CacheKeys |->
        IF k = "last_kp" THEN kp
        ELSE IF k = "last_time" THEN t
        ELSE IF k = "last_risk" THEN Some(risk)
        ELSE IF k = "last_sent_sid" THEN sid
        ELSE IF k = "last_sent_at" THEN sent_at
        ELSE cache[k]]

\* except Exception as e: every exception of a cycle is caught
ExcKinds == {"kp_fetch", "flare_fetch", "cme_fetch", "status_open",
             "status_dump", "dispatch", "cache_open", "cache_dump"}
\* variant: "except requests.exceptions.RequestException", which a gateway
\* or file error is not
Caught_RequestOnly(e) == e \in {"kp_fetch"}
Caught(e) == e \in ExcKinds

(***************************************************************************)
(* check_and_alert: one cycle of the bot                                   *)
(***************************************************************************)
\* cyc.out: "none" before the first cycle, "running" inside a cycle, then
\*   "no_kp"    the Kp source returned nothing, the cycle returned early;
\*   "error"    an exception (cyc.exc) ended the cycle;
\*   "no_alert" the cycle ended without sending;
\*   "sent"     the notification was sent and the cache saved.
NoCycle ==
    [out |-> "none", exc |-> "none", kp |-> None, t |-> None,
     flare_class |-> None, cme_speed |-> None, risk |-> "none",
     cache |-> EmptyDict, cacheState |-> "missing", should_send |-> FALSE,
     sent |-> FALSE, stored |-> FALSE, time |-> None, msg |-> <<>>]

Fail(c, e) == [c EXCEPT !.out = "error", !.exc = e]

\* lines 217-256: the three fetches, the score, the cache read, the decision
\* and the record to persist, in cycle n with the cache file as it is
FetchPhase(rk, rf, rc, file, n) ==
    LET kp_data == fetch_latest_kp(rk)
        flare_data == fetch_latest_nasa_flare(rf)
        cme_data == fetch_latest_cme(rc)
        c0 == [NoCycle EXCEPT !.out = "running", !.time = strftime(n)]
    IN  IF kp_data.raised THEN Fail(c0, "kp_fetch")
        ELSE IF kp_data.val = None THEN [c0 EXCEPT !.out = "no_kp"]
        ELSE LET kp == kp_data.val[1].kp
                 t == OrStr(kp_data.val[1].time, isoformat(n))
                 c1 == [c0 EXCEPT !.kp = kp, !.t = t]
             IN  IF flare_data.raised THEN Fail(c1, "flare_fetch")
                 ELSE IF cme_data.raised THEN Fail(c1, "cme_fetch")
                 ELSE LET flare_class ==
                              IF flare_data.val # None
                              THEN Some(flare_data.val[1].class) ELSE None
                          cme_speed ==
                              IF cme_data.val # None
                              THEN Some(cme_data.val[1].speed) ELSE None
                          risk == score_risk(kp, flare_class, cme_speed)
                          cache == load_cache(file)
                      IN  [c1 EXCEPT !.flare_class = flare_class,
                                     !.cme_speed = cme_speed,
                                     !.risk = risk,
                                     !.cache = cache,
                                     !.cacheState = file.state,
                                     !.should_send = ShouldSend(cache, risk)]

Summary(c) ==
    [out |-> c.out, exc |-> c.exc, risk |-> c.risk, sent |-> c.sent]

\* the cycle ends with locals c: back to the scheduler loop, unless an
\* exception escaped check_and_alert and ended the process
EndCycle(c) ==
    /\ cyc' = c
    /\ IF c.out = "error" /\ ~Caught(c.exc)
       THEN pc' = "crashed" /\ alive' = FALSE
       ELSE pc' = "idle" /\ alive' = TRUE

\* variant: the job is started on its own thread at every tick, whether or
\* not the cycle before it has returned
Fetch_Threaded ==
    /\ pc # "crashed" /\ alive /\ now < MaxCycles
    /\ now' = now + 1
    /\ prev' = Summary(cyc)
    /\ \E rk \in KpResponses, rf \in FlareResponses, rc \in CmeResponses :
          LET c == FetchPhase(rk, rf, rc, cacheFile, now + 1)
          IN  IF c.out = "running"
              THEN cyc' = c /\ pc' = "open_status" /\ alive' = alive
              ELSE EndCycle(c)
    /\ resp' = NoResp
    /\ UNCHANGED <<statusFile, cacheFile, lastSent, lastRecord>>

\* a scheduler tick (or process start) runs check_and_alert up to the
\* decision
Fetch ==
    /\ pc = "idle" /\ alive /\ now < MaxCycles
    /\ now' = now + 1
    /\ prev' = Summary(cyc)
    /\ \E rk \in KpResponses, rf \in FlareResponses, rc \in CmeResponses :
          LET c == FetchPhase(rk, rf, rc, cacheFile, now + 1)
          IN  IF c.out = "running"
              THEN cyc' = c /\ pc' = "open_status" /\ alive' = alive
              ELSE EndCycle(c)
    /\ resp' = NoResp
    /\ UNCHANGED <<statusFile, cacheFile, lastSent, lastRecord>>

\* with open("status.json", "w") as f: truncates the file, or raises
OpenStatus ==
    /\ pc = "open_status"
    /\ \E ok \in BOOLEAN :
          IF ok
          THEN /\ statusFile' = Partial
               /\ pc' = "dump_status"
               /\ UNCHANGED <<cyc, alive>>
          ELSE /\ EndCycle(Fail(cyc, "status_open"))
               /\ UNCHANGED statusFile
    /\ resp' = NoResp
    /\ UNCHANGED <<now, prev, cacheFile, lastSent, lastRecord>>

\* json.dump(current_status, f, indent=2) and the close of the file; then
\* the else branch of "if should_send" when nothing is to be sent
DumpStatus ==
    /\ pc = "dump_status"
    /\ \E ok \in BOOLEAN :
          IF ok
          THEN LET rec == current_status(cyc.risk, cyc.kp, cyc.flare_class,
                                         cyc.cme_speed, cyc.time)
                   c == [cyc EXCEPT !.stored = TRUE]
               IN  /\ statusFile' = FileOf(rec)
                   /\ lastRecord' = Some(rec)
                   /\ IF c.should_send
                      THEN cyc' = c /\ pc' = "dispatch" /\ alive' = alive
                      ELSE EndCycle([c EXCEPT !.out = "no_alert"])
          ELSE /\ EndCycle(Fail(cyc, "status_dump"))
               /\ UNCHANGED <<statusFile, lastRecord>>
    /\ resp' = NoResp
    /\ UNCHANGED <<now, prev, cacheFile, lastSent>>

\* send_whatsapp raised: lines 271-278 are skipped, the cache dict d that
\* they would have saved is dropped and the cache file stays as it is
AfterFailedSend_SaveAnyway(file, d) == FileOf(d)
AfterFailedSend(file, d) == file

\* lines 264-278: format, send_whatsapp, then the cache update and save
Dispatch ==
    /\ pc = "dispatch"
    /\ LET msg == full_msg(cyc.risk, cyc.kp, cyc.t, cyc.flare_class,
                           cyc.cme_speed)
           c == [cyc EXCEPT !.sent = TRUE, !.msg = msg]
       IN  \E accepted \in BOOLEAN, w \in WriteOutcomes :
              IF ~accepted
              THEN /\ EndCycle(Fail(c, "dispatch"))
                   /\ cacheFile' =
                          AfterFailedSend(cacheFile,
                              UpdatedCache(c.cache, c.kp, c.t, c.risk, None,
                                           None))
                   /\ UNCHANGED lastSent
              ELSE LET sid == Sid(now)
                       d == UpdatedCache(c.cache, c.kp, c.t, c.risk, sid,
                                         isoformat(now))
                   IN  /\ lastSent' = Some([risk |-> c.risk, sid |-> sid])
                       /\ cacheFile' = save_cache(d, cacheFile, w)
                       /\ EndCycle(IF w = "ok" THEN [c EXCEPT !.out = "sent"]
                                   ELSE IF w = "open_fail"
                                        THEN Fail(c, "cache_open")
                                        ELSE Fail(c, "cache_dump"))
    /\ resp' = NoResp
    /\ UNCHANGED <<now, prev, statusFile, lastRecord>>

(***************************************************************************)
(* The dashboard (app.py). It runs in its own process: a request is served *)
(* between any two steps of the bot, and resp shows its response until the *)
(* next step.                                                              *)
(***************************************************************************)
Str(w) == Some(<<w>>)

InitializingStatus ==
    [risk |-> Str("INITIALIZING"), kp_value |-> Str("N/A"),
     flare_class |-> Str("N/A"), cme_speed |-> Str("N/A"),
     time |-> Str("No Data")]

ErrorStatus ==
    [risk |-> Str("ERROR"), kp_value |-> Str("N/A"),
     flare_class |-> Str("N/A"), cme_speed |-> Str("N/A"),
     time |-> Str("Error Reading Data")]

\* GET /: kind tells where the rendered status comes from
index(file) ==
    IF file.state = "ok"
    THEN [handler |-> "index", code |-> 200, kind |-> "record",
          body |-> file.data]
    ELSE IF file.state = "missing"
    THEN [handler |-> "index", code |-> 200, kind |-> "nodata",
          body |-> InitializingStatus]
    ELSE [handler |-> "index", code |-> 200, kind |-> "error",
          body |-> ErrorStatus]

\* GET /data: json.load on a partial file raises a JSONDecodeError that
\* only FileNotFoundError is caught for (kind "raised", answered 500)
get_data(file) ==
    IF file.state = "ok"
    THEN [handler |-> "get_data", code |-> 200, kind |-> "record",
          body |-> file.data]
    ELSE IF file.state = "missing"
    THEN [handler |-> "get_data", code |-> 404, kind |-> "nodata",
          body |-> [error |-> Str("No data file found")]]
    ELSE [handler |-> "get_data", code |-> 500, kind |-> "raised",
          body |-> EmptyDict]

Index ==
    /\ resp' = index(statusFile)
    /\ UNCHANGED <<pc, now, alive, cyc, prev, statusFile, cacheFile,
                   lastSent, lastRecord>>

GetData ==
    /\ resp' = get_data(statusFile)
    /\ UNCHANGED <<pc, now, alive, cyc, prev, statusFile, cacheFile,
                   lastSent, lastRecord>>

(***************************************************************************)
(* Specification                                                           *)
(***************************************************************************)
Init ==
    /\ pc = "idle"
    /\ now = 0
    /\ alive = TRUE
    /\ cyc = NoCycle
    /\ prev = Summary(NoCycle)
    /\ statusFile = Missing
    /\ cacheFile = Missing
    /\ lastSent = None
    /\ lastRecord = None
    /\ resp = NoResp

Next ==
    \/ Fetch
    \/ OpenStatus
    \/ DumpStatus
    \/ Dispatch
    \/ Index
    \/ GetData

Spec == Init /\ [][Next]_vars

(***************************************************************************)
(* The pure functions on their own: score_risk and format_message applied  *)
(* to readings (lines 236 and 265-266), and fetch_latest_cme applied to a  *)
(* provider response (lines 232-236), over wider inputs than a run of the  *)
(* bot above draws. cyc holds the locals involved.                         *)
(***************************************************************************)
KpInputs == {None, Some(0), Some(29), Some(30), Some(59), Some(60), Some(90)}
FlareInputs == {None, Some("B"), Some("C"), Some("M"), Some("X")}
SpeedInputs == {None, Some(600), Some(601), Some(1000), Some(1001)}
Langs == {"en", "ml"}

CmeAnalyses ==
    [isMostAccurate : {Some(TRUE), Some(FALSE)},
     speed : {None, Some(0), Some(600), Some(601), Some(1200)}]
        \cup {[speed |-> Some(601)], [speed |-> Some(1200)]}

RECURSIVE SeqsUpTo(_, _)
SeqsUpTo(S, n) ==
    IF n = 0 THEN {<<>>}
    ELSE LET shorter == SeqsUpTo(S, n - 1)
         IN  shorter \cup {Append(q, e) : q \in shorter, e \in S}

CmeInputs ==
    {Resp("error", <<>>), Resp("malformed", <<>>)}
        \cup {Resp("ok", arr) : arr \in SeqsUpTo(CmeAnalyses, MaxAnalyses)}

CmeLocals(r) ==
    [input |-> r, cme_speed |-> None, risk |-> "none"]

PureInit ==
    /\ \/ /\ pc = "score_in"
          /\ \E k \in KpInputs, f \in FlareInputs, c \in SpeedInputs :
                cyc = [NoCycle EXCEPT !.kp = k, !.flare_class = f,
                                      !.cme_speed = c, !.t = Tag]
       \/ /\ pc = "cme_in"
          /\ \E r \in CmeInputs : cyc = CmeLocals(r)
    /\ now = 0
    /\ alive = TRUE
    /\ prev = Summary(NoCycle)
    /\ statusFile = Missing
    /\ cacheFile = Missing
    /\ lastSent = None
    /\ lastRecord = None
    /\ resp = NoResp

\* risk = score_risk(kp, flare_class, cme_speed)
ScoreRisk ==
    /\ pc = "score_in"
    /\ cyc' = [cyc EXCEPT !.risk = score_risk(cyc.kp, cyc.flare_class,
                                              cyc.cme_speed)]
    /\ pc' = "scored"
    /\ UNCHANGED <<now, alive, prev, statusFile, cacheFile, lastSent,
                   lastRecord, resp>>

\* msg = format_message(risk, kp, t, flare_class, cme_speed, lang=...)
FormatMessage ==
    /\ pc = "scored"
    /\ \E lang \in Langs :
          cyc' = [cyc EXCEPT !.msg = format_message(cyc.risk, cyc.kp, cyc.t,
                                                    cyc.flare_class,
                                                    cyc.cme_speed, lang)]
    /\ pc' = "formatted"
    /\ UNCHANGED <<now, alive, prev, statusFile, cacheFile, lastSent,
                   lastRecord, resp>>

\* cme_data = fetch_latest_cme(); cme_speed = cme_data['speed'] if cme_data
\* else None; then the score of that reading alone
ApplyCme ==
    /\ pc = "cme_in"
    /\ LET cme_data == fetch_latest_cme(cyc.input)
       IN  IF cme_data.raised
           THEN pc' = "cme_raised" /\ cyc' = cyc
           ELSE LET cme_speed == IF cme_data.val # None
                                 THEN Some(cme_data.val[1].speed) ELSE None
                IN  /\ pc' = "cme_done"
                    /\ cyc' = [cyc EXCEPT
                                  !.cme_speed = cme_speed,
                                  !.risk = score_risk(None, None, cme_speed)]
    /\ UNCHANGED <<now, alive, prev, statusFile, cacheFile, lastSent,
                   lastRecord, resp>>

PureNext ==
    \/ ScoreRisk
    \/ FormatMessage
    \/ ApplyCme

PureSpec == PureInit /\ [][PureNext]_vars


(***************************************************************************)
(* Properties                                                              *)
(***************************************************************************)
\* the cycle has computed a severity
Computed(c) == c.risk # "none"

\* the cycle is over
Ended(c) == c.out \in {"no_kp", "error", "no_alert", "sent"}

\* the cycle got past the write of status.json, to the "if should_send"
Decided(c) ==
    \/ c.out \in {"no_alert", "sent"}
    \/ c.out = "error" /\ c.exc \in {"dispatch", "cache_open", "cache_dump"}

\* the record the cycle is to write to status.json
RecordOf(c) ==
    current_status(c.risk, c.kp, c.flare_class, c.cme_speed, c.time)

\* the cache file as the cycle found it
CacheAtStart(c) == [state |-> c.cacheState, data |-> c.cache]

\* the stored last severity of the cycle is missing or differs from the
\* severity the cycle computed
SeverityChanged(c) ==
    \/ Get(c.cache, "last_risk") = None
    \/ Get(c.cache, "last_risk") # Some(c.risk)

\* C1: of two consecutive cycles that compute the same severity, at most
\* one invokes send_whatsapp. Stated for the pairs whose first cycle sent
\* its notification and saved the cache, the case in which nothing but the
\* dedup test decides the second cycle.
C1_Dedup ==
    (Computed(cyc) /\ prev.risk = cyc.risk /\ prev.out = "sent")
        => ~(prev.sent /\ cyc.sent)

\* C2: a cycle that reaches the "if should_send" invokes send_whatsapp if
\* and only if the stored last severity is missing or differs from the
\* severity it computed.
C2_DispatchCondition ==
    Decided(cyc) => (cyc.sent <=> SeverityChanged(cyc))

C4_SourceFailureIsolated ==
    /\ cyc.exc \notin {"kp_fetch", "flare_fetch", "cme_fetch"}
    /\ cyc.out # "no_kp"

C7_AlwaysPersists ==
    Ended(cyc) => (cyc.stored /\ statusFile = FileOf(RecordOf(cyc)))

\* C8: after a cycle whose dispatch failed, status.json holds the severity
\* and readings of that cycle and the cache file is as the cycle found it.
C8_FailedDispatchFrame ==
    (cyc.out = "error" /\ cyc.exc = "dispatch")
        => /\ statusFile = FileOf(RecordOf(cyc))
           /\ cacheFile = CacheAtStart(cyc)
           /\ Get(load_cache(cacheFile), "last_sent_sid")
                  = Get(cyc.cache, "last_sent_sid")
           /\ Get(load_cache(cacheFile), "last_sent_at")
                  = Get(cyc.cache, "last_sent_at")

C8_Witness ==
    /\ cyc.out = "error" /\ cyc.exc = "dispatch"
    /\ cacheFile.state = "ok"
    /\ Get(cacheFile.data, "last_risk") # Some(cyc.risk)
    /\ Get(cacheFile.data, "last_sent_sid") = Sid(1)

\* C9: a dashboard request gets the last record written completely to
\* status.json (the no-data answer before the first one), never a file in
\* the middle of a write.
C9_AtomicRead ==
    resp # NoResp
        => \/ resp.kind = "record" /\ Some(resp.body) = lastRecord
           \/ resp.kind = "nodata" /\ lastRecord = None

\* C10: an exception raised inside a cycle never ends the process: the
\* cycle ends, the scheduler loop goes on and the next tick starts a cycle.
C10_ExceptionsContained ==
    /\ alive
    /\ pc # "crashed"
    /\ cyc.out = "error" => pc = "idle"
    /\ (pc = "idle" /\ now < MaxCycles) => ENABLED Fetch

C10_Witness ==
    /\ prev.out = "error" /\ prev.exc = "dispatch"
    /\ cyc.out = "error" /\ cyc.exc = "cache_dump"
    /\ pc = "idle" /\ alive

\* the order green < yellow < red (NORMAL < ELEVATED < CRITICAL)
Severities == {"green", "yellow", "red"}
Rank(s) == IF s = "red" THEN 2 ELSE IF s = "yellow" THEN 1 ELSE 0
SeverityOfRank(n) == IF n = 2 THEN "red" ELSE IF n = 1 THEN "yellow" ELSE "green"
MaxOf(S) == CHOOSE m \in S : \A x \in S : x <= m

\* severity of one available reading, as the thresholds are stated
KpSeverity(v) == IF v >= 60 THEN "red" ELSE IF v >= 30 THEN "yellow" ELSE "green"
FlareSeverity(c) == IF c = "X" THEN "red" ELSE IF c = "M" THEN "yellow" ELSE "green"
CmeSeverity(v) == IF v > 1000 THEN "red" ELSE IF v > 600 THEN "yellow" ELSE "green"

\* severity of one indicator, a missing reading counting as green
IndicatorSeverity(kind, reading) ==
    IF reading = None THEN "green"
    ELSE IF kind = "kp" THEN KpSeverity(reading[1])
    ELSE IF kind = "flare" THEN FlareSeverity(reading[1])
    ELSE CmeSeverity(reading[1])

NotLower(a, b) == Rank(a) >= Rank(b)

\* C11: score_risk returns the maximum of the three per-indicator
\* severities under green < yellow < red, and raising the severity of any
\* one indicator never lowers the result.
C11_MaxAndMonotonic ==
    pc = "scored" =>
        LET k == cyc.kp
            f == cyc.flare_class
            c == cyc.cme_speed
        IN  /\ cyc.risk = SeverityOfRank(MaxOf(
                   {Rank(IndicatorSeverity("kp", k)),
                    Rank(IndicatorSeverity("flare", f)),
                    Rank(IndicatorSeverity("cme", c))}))
            /\ \A k2 \in KpInputs :
                  NotLower(IndicatorSeverity("kp", k2),
                           IndicatorSeverity("kp", k))
                      => NotLower(score_risk(k2, f, c), cyc.risk)
            /\ \A f2 \in FlareInputs :
                  NotLower(IndicatorSeverity("flare", f2),
                           IndicatorSeverity("flare", f))
                      => NotLower(score_risk(k, f2, c), cyc.risk)
            /\ \A c2 \in SpeedInputs :
                  NotLower(IndicatorSeverity("cme", c2),
                           IndicatorSeverity("cme", c))
                      => NotLower(score_risk(k, f, c2), cyc.risk)

C11_Witness ==
    /\ pc = "scored"
    /\ cyc.kp = Some(60) /\ cyc.flare_class = Some("M")
    /\ cyc.cme_speed = Some(600)
    /\ cyc.risk = "red"

\* the severities of the readings that are available
AvailableRanks(k, f, c) ==
    (IF k # None THEN {Rank(KpSeverity(k[1]))} ELSE {})
        \cup (IF f # None THEN {Rank(FlareSeverity(f[1]))} ELSE {})
        \cup (IF c # None THEN {Rank(CmeSeverity(c[1]))} ELSE {})

\* C12: for every combination of available and missing readings score_risk
\* returns a severity, and it is the maximum severity of the available
\* readings, green when none is available.
C12_TotalOnUnavailable ==
    pc = "scored" =>
        /\ cyc.risk \in Severities
        /\ cyc.risk = SeverityOfRank(MaxOf(
               {0} \cup AvailableRanks(cyc.kp, cyc.flare_class,
                                       cyc.cme_speed)))

C12_Witness ==
    /\ pc = "scored"
    /\ cyc.kp = None /\ cyc.flare_class = None /\ cyc.cme_speed = None
    /\ cyc.risk = "green"

\* the phrases of the lines that follow the title and the "Observed at" line
Advisories(msg) == [i \in 1..(Len(msg) - 2) |-> msg[i + 2].phrase]

\* C15 as claimed: red appends the navigation, power and flare-risk
\* lines; yellow the navigation line, and the flare-risk line if and only
\* if a flare class or an ejection speed is present; green the no-action
\* line alone.
C15_AdvisoryLines ==
    pc = "formatted" =>
        Advisories(cyc.msg) =
            IF cyc.risk = "red"
            THEN <<"gps_advice", "power_advice", "flare_risk">>
            ELSE IF cyc.risk = "yellow"
            THEN IF cyc.flare_class # None \/ cyc.cme_speed # None
                 THEN <<"gps_advice", "flare_risk">>
                 ELSE <<"gps_advice">>
            ELSE <<"no_action">>

\* C15 amended: as claimed, except that yellow appends the flare-risk line
\* if and only if the flare class is M or an ejection speed is present and
\* not zero.
C15_AdvisoryLinesClassM ==
    pc = "formatted" =>
        Advisories(cyc.msg) =
            IF cyc.risk = "red"
            THEN <<"gps_advice", "power_advice", "flare_risk">>
            ELSE IF cyc.risk = "yellow"
            THEN IF \/ cyc.flare_class = Some("M")
                    \/ (cyc.cme_speed # None /\ cyc.cme_speed[1] # 0)
                 THEN <<"gps_advice", "flare_risk">>
                 ELSE <<"gps_advice">>
            ELSE <<"no_action">>

C15_Witness ==
    /\ pc = "formatted"
    /\ cyc.risk = "yellow" /\ cyc.kp = Some(30)
    /\ cyc.flare_class = Some("C") /\ cyc.cme_speed = None
    /\ Advisories(cyc.msg) = <<"gps_advice">>

\* the analyses of a response that are flagged most accurate and faster
\* than 600 km/s
Material(r) ==
    {i \in 1..Len(r.arr) :
        /\ Get(r.arr[i], "isMostAccurate") = Some(TRUE)
        /\ Get(r.arr[i], "speed") # None
        /\ Get(r.arr[i], "speed")[1] > 600}

\* C16: fetch_latest_cme yields a reading exactly when some analysis is
\* flagged most accurate and faster than 600 km/s, and the reading is the
\* speed of such an analysis; so the ejection speed given to score_risk is
\* above 600 and never scores green.
C16_CmeMaterialOnly ==
    pc = "cme_done" =>
        LET r == cyc.input
            v == cyc.cme_speed
        IN  /\ v # None <=> (r.kind = "ok" /\ Material(r) # {})
            /\ v # None =>
                  /\ \E i \in Material(r) : Get(r.arr[i], "speed") = v
                  /\ v[1] > 600
                  /\ cme_risk(v) # "green"
                  /\ cyc.risk # "green"

C16_Witness ==
    /\ pc = "cme_done"
    /\ cyc.input.kind = "ok" /\ Len(cyc.input.arr) = 2
    /\ cyc.input.arr[1] = [isMostAccurate |-> Some(FALSE), speed |-> Some(1200)]
    /\ cyc.input.arr[2] = [isMostAccurate |-> Some(TRUE), speed |-> Some(601)]
    /\ cyc.cme_speed = Some(601)

\* a cycle is in flight
InFlight == pc \in {"open_status", "dump_status", "dispatch"}

\* C13: a cycle starts only from the scheduler loop, when no cycle is in
\* flight: the first at process start, each later one after the cycle
\* before it has ended.
C13_NoOverlap ==
    /\ [](InFlight <=> cyc.out = "running")
    /\ [][now' # now =>
            /\ now' = now + 1
            /\ pc = "idle" /\ ~InFlight
            /\ (now = 0 => cyc.out = "none")
            /\ (now > 0 => Ended(cyc))]_vars

C13_Witness ==
    /\ now = 2 /\ InFlight
    /\ prev.out \in {"no_kp", "error", "no_alert", "sent"}

\* C14: whatever the state of status.json, a dashboard handler returns the
\* record, the no-data answer or the error state, and never raises.
C14_ViewNeverRaises ==
    resp # NoResp => resp.kind \in {"record", "nodata", "error"}

\* C18 as claimed: in every state the cache file holds the severity and
\* the dispatch id of the last notification the gateway accepted, and
\* there is no cache file before the first.
C18_RecordMatchesLastSent ==
    /\ lastSent = None => cacheFile = Missing
    /\ lastSent # None =>
          /\ cacheFile.state = "ok"
          /\ Get(cacheFile.data, "last_risk") = Some(lastSent[1].risk)
          /\ Get(cacheFile.data, "last_sent_sid") = lastSent[1].sid

\* the step is one in which the gateway accepted the notification
Accepted ==
    /\ pc = "dispatch"
    /\ cyc'.sent /\ cyc'.exc # "dispatch"
    /\ lastSent' = Some([risk |-> cyc.risk, sid |-> Sid(now)])

\* C18 amended: the cache file changes only in a step in which the gateway
\* accepted the notification; when the save succeeds it holds the severity
\* and the dispatch id of that notification; a readable cache file exists
\* only after an accepted notification.
C18_RecordWrittenAfterSend ==
    /\ [](cacheFile.state = "ok" => lastSent # None)
    /\ [][/\ cacheFile' # cacheFile => Accepted
          /\ (cyc.out = "running" /\ cyc'.out = "sent") =>
                /\ Accepted
                /\ cacheFile'.state = "ok"
                /\ Get(cacheFile'.data, "last_risk") = Some(lastSent'[1].risk)
                /\ Get(cacheFile'.data, "last_sent_sid") = lastSent'[1].sid]_vars

C18_Witness ==
    /\ now = 2 /\ prev.out = "sent"
    /\ cyc.out = "error" /\ cyc.exc = "dispatch"
    /\ cacheFile.state = "ok"
    /\ Get(cacheFile.data, "last_sent_sid") = Sid(1)
    /\ lastSent[1].sid = Sid(1)

(***************************************************************************)
(* The bot running forever. The scheduler loop of lines 296-298 never      *)
(* ends; the clock is held at MaxCycles once it gets there, so that the    *)
(* cycles after it carry the same timestamps. The providers answer from    *)
(* LiveKpResponses, with no flare and no CME to report.                    *)
(***************************************************************************)
LiveKpResponses ==
    { Resp("error", <<>>),
      Resp("ok", << [kp_index |-> Some(0), time_tag |-> Tag] >>),
      Resp("ok", << [kp |-> Some(20)] >>),
      Resp("ok", << [kp |-> Some(30), Kp |-> Some(60), date |-> Tag],
                    [kp_index |-> Some(60)] >>) }
LiveFlareResponses == { Resp("error", <<>>) }
LiveCmeResponses == { Resp("ok", <<>>) }

\* a scheduler tick runs check_and_alert up to the decision
Tick ==
    /\ pc = "idle" /\ alive
    /\ now' = IF now < MaxCycles THEN now + 1 ELSE now
    /\ prev' = Summary(cyc)
    /\ \E rk \in LiveKpResponses, rf \in LiveFlareResponses,
          rc \in LiveCmeResponses :
          LET c == FetchPhase(rk, rf, rc, cacheFile, now')
          IN  IF c.out = "running"
              THEN cyc' = c /\ pc' = "open_status" /\ alive' = alive
              ELSE EndCycle(c)
    /\ UNCHANGED <<statusFile, cacheFile, lastSent, lastRecord, resp>>

\* the gateway accepts the message
DispatchAccepted == Dispatch /\ cyc'.exc # "dispatch"

LiveNext ==
    \/ Tick
    \/ OpenStatus
    \/ DumpStatus
    \/ Dispatch

\* ticks keep occurring, a cycle that started goes on, and the gateway does
\* not refuse for ever
LiveSpec ==
    /\ Init
    /\ [][LiveNext]_vars
    /\ WF_vars(Tick)
    /\ WF_vars(OpenStatus)
    /\ WF_vars(DumpStatus)
    /\ WF_vars(Dispatch)
    /\ SF_vars(DispatchAccepted)

\* a cycle has just computed severity s and the cache file does not hold s
\* as its last_risk
Pending(s) ==
    /\ pc = "open_status"
    /\ cyc.risk = s
    /\ Get(load_cache(cacheFile), "last_risk") # Some(s)

\* the cycle under way or last ended computed severity s
Steady(s) == cyc.risk = s

\* the gateway accepted a notification of severity s in this cycle
SentOk(s) ==
    /\ cyc.sent /\ cyc.risk = s
    /\ cyc.out \in {"sent", "error"}
    /\ cyc.exc \in {"none", "cache_open", "cache_dump"}

====
